---- MODULE Spec2Model ----
(***************************************************************************)
(* The maze generator and solver of lab3 (class Maze of                    *)
(* src/lab3/lab3_version3.py): randomized depth-first carving over the     *)
(* step-2 lattice, then breadth-first search with a predecessor map, path  *)
(* reconstruction and in-place annotation of the grid.                     *)
(*                                                                         *)
(* A position is a pair <<row, col>>; the grid `maze` is a function from   *)
(* positions to cell values.  One action is one loop iteration of the      *)
(* source (or the straight-line code before or after a loop).              *)
(***************************************************************************)
EXTENDS Integers, Sequences, FiniteSets, TLC

\* Bounds of the model.
MaxDim == 8
MaxSolves == 2

\* Cell values of the grid.
Wall == -1
Passage == 0
Visited == 2
OnPath == 3

\* Python's None, as a predecessor and as the end of the reconstruction walk.
None == << >>

VARIABLES
    width,      \* self.width
    height,     \* self.height
    maze,       \* self.maze
    start_pos,  \* self.start_pos
    end_pos,    \* self.end_pos
    pc,         \* where the caller / the running method is
    error,      \* the exception that ended the run, "none" otherwise
    stack,      \* generate_maze: stack
    pushed,     \* history: how often each cell was put on the stack
    queue,      \* solve_sequential: queue
    visited,    \* solve_sequential: visited (position -> predecessor or None)
    path,       \* solve_sequential: the value returned by the last call
    returned,   \* history: the values returned by the calls so far, in order
    before      \* history: the grid as it was when the running/last solve began

vars == << width, height, maze, start_pos, end_pos, pc, error, stack, pushed,
           queue, visited, path, returned, before >>

Pos == (0 .. height - 1) \X (0 .. width - 1)

Range(s) == { s[i] : i \in DOMAIN s }

Reverse(s) == [ i \in 1 .. Len(s) |-> s[Len(s) + 1 - i] ]

-----------------------------------------------------------------------------
(* Construction *)

Init ==
    /\ width \in 1 .. MaxDim
    /\ height \in 1 .. MaxDim
    /\ maze = [ p \in (0 .. height - 1) \X (0 .. width - 1) |-> Wall ]
    /\ start_pos = << 0, 0 >>
    /\ end_pos = << height - 1, width - 1 >>
    /\ pc = "constructed"
    /\ error = "none"
    /\ stack = << >>
    /\ pushed = [ p \in (0 .. height - 1) \X (0 .. width - 1) |-> 0 ]
    /\ queue = << >>
    /\ visited = << >>
    /\ path = << >>
    /\ returned = << >>
    /\ before = maze

-----------------------------------------------------------------------------
(* generate_maze *)

\* The four lattice directions; random.shuffle leaves any permutation of them.
CarveDirections == << << 0, 2 >>, << 2, 0 >>, << 0, -2 >>, << -2, 0 >> >>

Shuffles ==
    { [ i \in 1 .. 4 |-> CarveDirections[f[i]] ] :
        f \in { g \in [ 1 .. 4 -> 1 .. 4 ] :
                  \A i, j \in 1 .. 4 : g[i] = g[j] => i = j } }

\* A faulty variant of CarveQualifies: the upper bounds let the last row and column in.
CarveQualifiesToEdge(nx, ny) ==
    /\ 0 < nx /\ nx < height
    /\ 0 < ny /\ ny < width
    /\ maze[<< nx, ny >>] = Wall

\* The test of a lattice neighbour.
CarveQualifies(nx, ny) ==
    /\ 0 < nx /\ nx < height - 1
    /\ 0 < ny /\ ny < width - 1
    /\ maze[<< nx, ny >>] = Wall

\* neighbors, for the current cell and the shuffled directions: the entries
\* (nx, ny, dx // 2, dy // 2) that qualify, in the order of the directions.
Neighbors(cur, dirs) ==
    LET cand == [ i \in 1 .. 4 |->
                    << cur[1] + dirs[i][1], cur[2] + dirs[i][2],
                       dirs[i][1] \div 2, dirs[i][2] \div 2 >> ]
    IN  SelectSeq(cand, LAMBDA n : CarveQualifies(n[1], n[2]))

\* The grid is reset, the cell (1, 1) is carved and put on the stack.  On a
\* grid with one row or one column the write to maze[1][1] raises IndexError.
GenerateBegin ==
    /\ pc = "constructed"
    /\ IF height < 2 \/ width < 2
       THEN /\ pc' = "error"
            /\ error' = "IndexError"
            /\ maze' = [ p \in Pos |-> Wall ]
            /\ UNCHANGED << stack, pushed >>
       ELSE /\ pc' = "carving"
            /\ error' = error
            /\ maze' = [ p \in Pos |-> IF p = << 1, 1 >> THEN Passage ELSE Wall ]
            /\ stack' = << << 1, 1 >> >>
            /\ pushed' = [ p \in Pos |-> IF p = << 1, 1 >> THEN 1 ELSE 0 ]
    /\ UNCHANGED << width, height, start_pos, end_pos, queue, visited, path,
                    returned, before >>

\* One iteration of the carving loop that finds a neighbour: the wall between
\* and the neighbour are carved, the neighbour is pushed.
Carve ==
    /\ pc = "carving"
    /\ stack # << >>
    /\ \E dirs \in Shuffles :
         LET cur  == stack[Len(stack)]
             nbrs == Neighbors(cur, dirs)
         IN  /\ nbrs # << >>
             /\ LET n     == nbrs[1]
                    next  == << n[1], n[2] >>
                    wallc == << cur[1] + n[3], cur[2] + n[4] >>
                IN  /\ maze' = [ maze EXCEPT ![wallc] = Passage, ![next] = Passage ]
                    /\ stack' = Append(stack, next)
                    /\ pushed' = [ pushed EXCEPT ![next] = @ + 1 ]
    /\ UNCHANGED << width, height, start_pos, end_pos, pc, error, queue,
                    visited, path, returned, before >>

\* A faulty variant of PopStack: the whole stack is dropped at the first dead end.
PopStackAll(s) == << >>

\* stack.pop()
PopStack(s) == SubSeq(s, 1, Len(s) - 1)

\* One iteration of the carving loop that finds no neighbour: backtrack.
Backtrack ==
    /\ pc = "carving"
    /\ stack # << >>
    /\ \A dirs \in Shuffles : Neighbors(stack[Len(stack)], dirs) = << >>
    /\ stack' = PopStack(stack)
    /\ UNCHANGED << width, height, maze, start_pos, end_pos, pc, error, pushed,
                    queue, visited, path, returned, before >>

\* The loop has ended: the entrance and the exit are set and opened.
GenerateEnd ==
    /\ pc = "carving"
    /\ stack = << >>
    /\ start_pos' = << 0, 1 >>
    /\ end_pos' = << height - 1, width - 2 >>
    /\ maze' = [ maze EXCEPT ![<< 0, 1 >>] = Passage,
                             ![<< height - 1, width - 2 >>] = Passage ]
    /\ pc' = "generated"
    /\ UNCHANGED << width, height, error, stack, pushed, queue, visited, path,
                    returned, before >>

-----------------------------------------------------------------------------
(* solve_sequential *)

\* A faulty variant of SolveDirections: the last direction is a diagonal step.
SolveDirectionsDiagonal == << << 0, 1 >>, << 1, 0 >>, << 0, -1 >>, << -1, 1 >> >>

\* The four directions of the search, in the order they are tried.
SolveDirections == << << 0, 1 >>, << 1, 0 >>, << 0, -1 >>, << -1, 0 >> >>

\* A faulty variant of CanEnter: the test of the cell's value is lost, so the search
\* walks through walls.
CanEnterAnyCell(nx, ny, vis, mz) ==
    /\ 0 <= nx /\ nx < height
    /\ 0 <= ny /\ ny < width
    /\ << nx, ny >> \notin DOMAIN vis

\* The test of a neighbour of the dequeued cell.
CanEnter(nx, ny, vis, mz) ==
    /\ 0 <= nx /\ nx < height
    /\ 0 <= ny /\ ny < width
    /\ mz[<< nx, ny >>] = Passage
    /\ << nx, ny >> \notin DOMAIN vis

\* The for loop over the directions from direction i on: each neighbour that
\* can be entered is queued, gets `cur` as predecessor and is marked Visited.
RECURSIVE Expand(_, _, _, _, _)
Expand(i, cur, q, vis, mz) ==
    IF i > Len(SolveDirections)
    THEN [ q |-> q, vis |-> vis, mz |-> mz ]
    ELSE LET nx == cur[1] + SolveDirections[i][1]
             ny == cur[2] + SolveDirections[i][2]
             np == << nx, ny >>
         IN  IF CanEnter(nx, ny, vis, mz)
             THEN Expand(i + 1, cur, Append(q, np),
                         [ p \in DOMAIN vis \cup { np } |->
                             IF p = np THEN cur ELSE vis[p] ],
                         [ mz EXCEPT ![np] = Visited ])
             ELSE Expand(i + 1, cur, q, vis, mz)

\* The call begins: the queue and the predecessor map hold the entrance.
SolveBegin ==
    /\ pc \in { "generated", "solved" }
    /\ Len(returned) < MaxSolves
    /\ queue' = << start_pos >>
    /\ visited' = [ p \in { start_pos } |-> None ]
    /\ before' = maze
    /\ pc' = "bfs"
    /\ UNCHANGED << width, height, maze, start_pos, end_pos, error, stack,
                    pushed, path, returned >>

\* One iteration of the search loop: the head of the queue is taken out; the
\* exit ends the loop, any other cell is expanded.
BfsStep ==
    /\ pc = "bfs"
    /\ queue # << >>
    /\ LET current == Head(queue)
           rest    == Tail(queue)
       IN  IF current = end_pos
           THEN /\ queue' = rest
                /\ pc' = "found"
                /\ UNCHANGED << visited, maze >>
           ELSE LET r == Expand(1, current, rest, visited, maze)
                IN  /\ queue' = r.q
                    /\ visited' = r.vis
                    /\ maze' = r.mz
                    /\ pc' = pc
    /\ UNCHANGED << width, height, start_pos, end_pos, error, stack, pushed,
                    path, returned, before >>

\* The walk along the predecessors from `cur` until None; a position that is
\* not in the map has predecessor None (visited.get).
RECURSIVE PathFrom(_, _)
PathFrom(cur, vis) ==
    IF cur = None
    THEN << >>
    ELSE << cur >> \o PathFrom(IF cur \in DOMAIN vis THEN vis[cur] ELSE None, vis)

\* The grid with the cells of the path marked OnPath, the entrance and the
\* exit excepted.
MarkPath(p, mz) ==
    [ c \in DOMAIN mz |->
        IF c \in Range(p) /\ c # start_pos /\ c # end_pos THEN OnPath ELSE mz[c] ]

\* After the loop (the exit was dequeued, or the queue ran empty): the path is
\* reconstructed from the exit, marked, and returned reversed.
SolveFinish ==
    /\ \/ pc = "found"
       \/ pc = "bfs" /\ queue = << >>
    /\ LET p == PathFrom(end_pos, visited)
       IN  /\ maze' = MarkPath(p, maze)
           /\ path' = Reverse(p)
           /\ returned' = Append(returned, Reverse(p))
    /\ pc' = "solved"
    /\ UNCHANGED << width, height, start_pos, end_pos, error, stack, pushed,
                    queue, visited, before >>

-----------------------------------------------------------------------------

Next ==
    \/ GenerateBegin
    \/ Carve
    \/ Backtrack
    \/ GenerateEnd
    \/ SolveBegin
    \/ BfsStep
    \/ SolveFinish

Spec == Init /\ [][Next]_vars

\* generate_maze runs to completion: an iteration of the carving loop that can
\* be taken is taken.
FairSpec == Spec /\ WF_vars(Carve) /\ WF_vars(Backtrack)

-----------------------------------------------------------------------------
(* What the properties speak of *)

\* Both dimensions are at least 3.
ValidDimensions == width >= 3 /\ height >= 3

Entrance == << 0, 1 >>

Exit == << height - 1, width - 2 >>

Manhattan(p, q) ==
    (IF p[1] >= q[1] THEN p[1] - q[1] ELSE q[1] - p[1])
    + (IF p[2] >= q[2] THEN p[2] - q[2] ELSE q[2] - p[2])

Adjacent(p, q) == Manhattan(p, q) = 1

IsBorder(p) ==
    p[1] = 0 \/ p[1] = height - 1 \/ p[2] = 0 \/ p[2] = width - 1

\* The cells of the step-2 lattice inside the border.
CoarseCells ==
    { p \in Pos : /\ p[1] % 2 = 1 /\ p[2] % 2 = 1
                  /\ 0 < p[1] /\ p[1] < height - 1
                  /\ 0 < p[2] /\ p[2] < width - 1 }

PassageCells(mz) == { p \in DOMAIN mz : mz[p] = Passage }

OpenCells(mz) == { p \in DOMAIN mz : mz[p] # Wall }

\* The cells of `cells` joined to a cell of `seen` by 4-adjacent steps inside
\* `cells` (seen included).
RECURSIVE Closure(_, _)
Closure(cells, seen) ==
    LET more == { q \in cells \ seen : \E p \in seen : Adjacent(p, q) }
    IN  IF more = { } THEN seen ELSE Closure(cells, seen \cup more)

\* A reference breadth-first search by layers: the number of steps of a
\* shortest walk inside `cells` from the layer `frontier` (at depth d) to t,
\* and -1 when there is none.
RECURSIVE Layers(_, _, _, _, _)
Layers(cells, seen, frontier, t, d) ==
    IF t \in frontier THEN d
    ELSE LET more == { q \in cells \ seen : \E p \in frontier : Adjacent(p, q) }
         IN  IF more = { } THEN -1
             ELSE Layers(cells, seen \cup more, more, t, d + 1)

RefDistance(cells, s, t) == Layers(cells, { s }, { s }, t, 0)

\* The cells form a tree under 4-adjacency: connected, one edge less than cells.
IsTree(cells) ==
    /\ cells # { }
    /\ \A s \in cells : Closure(cells, { s }) = cells
    /\ Cardinality({ e \in cells \X cells : Adjacent(e[1], e[2]) })
         = 2 * (Cardinality(cells) - 1)

\* The cells taken out of the queue so far: every discovered cell was queued
\* when it entered the predecessor map, so these are the discovered cells that
\* are no longer queued.
Dequeued == DOMAIN visited \ Range(queue)

FirstSolveDone == pc = "solved" /\ Len(returned) = 1

-----------------------------------------------------------------------------
(* The properties *)

\* C1: on a generated maze with width >= 3 and height >= 3, odd or even, the
\* (first) solve returns a non-empty path that begins at the entrance (0, 1)
\* and ends at the exit (height-1, width-2).
C1_PathJoinsEntranceAndExit ==
    (ValidDimensions /\ FirstSolveDone) =>
        /\ path # << >>
        /\ path[1] = Entrance
        /\ path[Len(path)] = Exit

\* C2: after generate_maze on a grid with width >= 3 and height >= 3, the
\* Passage cells (entrance and exit included) form a tree under 4-adjacency.
C2_PassagesFormTree ==
    (ValidDimensions /\ pc = "generated") => IsTree(PassageCells(maze))

\* C3: two solves in a row on the same generated maze return paths of the
\* same length.
C3_ResolveSameLength ==
    (ValidDimensions /\ Len(returned) >= 2) =>
        Len(returned[2]) = Len(returned[1])

\* C4: when the exit cannot be reached from the entrance through Passage
\* cells, solve returns the empty sequence, marks no cell OnPath, and leaves
\* no annotation but Visited marks.
C4_NoPathReturnsEmpty ==
    ( /\ pc = "solved"
      /\ end_pos \notin Closure(PassageCells(before) \cup { start_pos },
                                { start_pos }) ) =>
        /\ path = << >>
        /\ \A p \in Pos : maze[p] = OnPath => before[p] = OnPath
        /\ \A p \in Pos : maze[p] # before[p] => maze[p] = Visited

\* C5: with width < 3 or height < 3 construction fails with
\* InvalidDimensions, so the maze is never constructed and never generated.
C5_SmallDimensionsRejected ==
    (width < 3 \/ height < 3) =>
        /\ error = "InvalidDimensions"
        /\ pc = "error"

\* C6: when solve returns a path from the entrance to the exit, its number of
\* edges is the breadth-first distance from the entrance to the exit over the
\* non-Wall cells of the grid as it was before the solve.
C6_PathIsShortest ==
    ( /\ pc = "solved"
      /\ path # << >>
      /\ path[1] = start_pos
      /\ path[Len(path)] = end_pos ) =>
        Len(path) - 1 = RefDistance(OpenCells(before), start_pos, end_pos)

\* C6, its case: a returned entrance-to-exit path that is longer than the
\* straight-line (Manhattan) distance, so the walls decide its length.
C6_Witness ==
    /\ pc = "solved"
    /\ path # << >>
    /\ path[1] = start_pos
    /\ path[Len(path)] = end_pos
    /\ Len(path) - 1 > Manhattan(start_pos, end_pos)

\* C7: in every returned path consecutive positions are 4-adjacent, every
\* position is inside the grid and none was a Wall when the solve began.
C7_PathIsValid ==
    pc = "solved" =>
        /\ \A i \in 1 .. Len(path) :
             /\ path[i] \in Pos
             /\ before[path[i]] # Wall
        /\ \A i \in 1 .. Len(path) - 1 : Manhattan(path[i], path[i + 1]) = 1

\* C7, its case: a returned path with a turn in it (rows and columns both
\* change along it).
C7_Witness ==
    /\ pc = "solved"
    /\ Len(path) >= 5
    /\ \E i, j \in 1 .. Len(path) - 1 :
         /\ path[i][1] # path[i + 1][1]
         /\ path[j][2] # path[j + 1][2]

C9_BorderIsWall ==
    ValidDimensions =>
        \A p \in Pos : (IsBorder(p) /\ p # Entrance /\ p # Exit) => maze[p] = Wall

\* C9, its case: a generated and solved maze, whose entrance and exit are
\* open and whose carved lattice reaches the row and column next to the border.
C9_Witness ==
    /\ ValidDimensions
    /\ pc = "solved"
    /\ maze[Entrance] # Wall
    /\ maze[Exit] # Wall
    /\ \E p \in Pos : maze[p] # Wall /\ p[1] = height - 2 /\ p[2] = width - 2

\* C10: with width >= 3 and height >= 3 the carving loop eventually empties
\* its stack, and when it has, every coarse-lattice cell is Passage and was
\* pushed exactly once.
C10_CarvingTerminatesCovering ==
    /\ (ValidDimensions /\ pc = "carving") ~> (pc = "carving" /\ stack = << >>)
    /\ []( (ValidDimensions /\ pc = "carving" /\ stack = << >>) =>
             \A p \in CoarseCells : maze[p] = Passage /\ pushed[p] = 1 )

\* C10, its case: the loop has stopped on a lattice that a depth-first walk
\* can get stuck in (at least 2 x 3 cells), so it had to backtrack.
C10_Witness ==
    /\ ValidDimensions
    /\ pc = "carving"
    /\ stack = << >>
    /\ Cardinality(CoarseCells) >= 6

====
